---- MODULE Spec2Model ----
(***************************************************************************)
(* EasyPeek backend: the news seed/import pipeline of                      *)
(* internal/services/seed_service.go (SeedNewsFromJSON, batchInsertNews),  *)
(* its bootstrap operations (SeedInitialAdmin, SeedRSSources), and the     *)
(* bulk event re-association handler and the paginated listing handlers    *)
(* of internal/api/news_hander.go, over relational tables with             *)
(* read-committed transactions.                                            *)
(***************************************************************************)
EXTENDS Integers, Sequences, FiniteSets, TLC

(***************************************************************************)
(* Program constants.                                                      *)
(***************************************************************************)
\* seed_service.go:156  if len(newsList) >= 100
FlushThreshold == 100
\* seed_service.go:184  tx.CreateInBatches(newsList, 50)
BatchSize == 50

(***************************************************************************)
(* Bounds of the model.                                                    *)
(***************************************************************************)
\* invocations of SeedNewsFromJSON / batchInsertNews in one behaviour
MaxCalls == 2
\* identity lookups that fail with an error other than not-found
MaxLookupErrors == 1
\* candidates of a bulk file beyond the flush threshold
Extra == 20
\* requests served by the re-association handler in one behaviour
MaxRequests == 2

Procs == {"p1", "p2"}

\* news_hander.go:308  EventID *uint: nil, "no event" (identifiers start at 1)
NULL == 0

(***************************************************************************)
(* Candidate records of a bulk file (NewsJSONData): the fields the         *)
(* pipeline branches on.  published_at is the text of the timestamp,       *)
(* source_type the tag string.                                             *)
(***************************************************************************)
Cand(g, l, ts, st) ==
    [guid |-> g, link |-> l, published_at |-> ts, source_type |-> st]

\* time.Parse("2006-01-02 15:04:05", s): the text either has the layout or not
ParseTime(s) ==
    IF s = "2006-01-02 15:04:05" THEN [ok |-> TRUE, t |-> "parsed"]
    ELSE [ok |-> FALSE, t |-> "zero"]

\* lines 100-104: a timestamp that does not parse is replaced by time.Now()
PublishedAt(c) ==
    LET r == ParseTime(c.published_at)
    IN  IF r.ok THEN r.t ELSE "now"

\* lines 119-122: "rss" is the RSS variant, anything else the manual one
SourceType(c) == IF c.source_type = "rss" THEN "rss" ELSE "manual"

\* lines 125-150: the models.News built from a candidate (not yet persisted)
NewsOf(c) ==
    [guid |-> c.guid, link |-> c.link, publishedAt |-> PublishedAt(c),
     sourceType |-> SourceType(c)]

(***************************************************************************)
(* Bulk files.  A file is unreadable, is not JSON of the expected shape,   *)
(* or parses to an ordered list of candidates.                             *)
(***************************************************************************)
Unreadable == [kind |-> "unreadable", items |-> <<>>]
Malformed  == [kind |-> "malformed", items |-> <<>>]
Parsed(s)  == [kind |-> "json", items |-> s]

GoodTs == "2006-01-02 15:04:05"

\* the example of the specification: same GUID, different links
FileGuidDup == <<Cand(1, 1, GoodTs, "rss"), Cand(1, 2, "yesterday", "manual")>>
\* same link under two GUIDs, then a fresh record
FileLinkDup == <<Cand(1, 1, GoodTs, "rss"), Cand(2, 1, GoodTs, "atom"),
                 Cand(3, 3, "", "rss")>>
\* pairwise distinct records
FileDistinct == <<Cand(1, 1, GoodTs, "rss"), Cand(2, 2, GoodTs, "manual")>>

SmallFiles ==
    {Unreadable, Malformed, Parsed(<<>>), Parsed(FileGuidDup),
     Parsed(FileLinkDup), Parsed(FileDistinct)}

\* FlushThreshold + Extra pairwise distinct records
FileLong ==
    [i \in 1..(FlushThreshold + Extra) |->
        Cand(i, i, IF i % 2 = 0 THEN GoodTs ELSE "bad", IF i % 3 = 0 THEN "rss" ELSE "x")]
\* the same, followed by a GUID duplicate and a link duplicate of flushed
\* records, a duplicate of a record still in the buffer, and a fresh record
FileLongDup ==
    FileLong \o
    <<Cand(1, 1001, GoodTs, "rss"), Cand(1002, 2, GoodTs, "rss"),
      Cand(FlushThreshold + 1, 1003, GoodTs, "rss"), Cand(1004, 1004, GoodTs, "rss")>>

\* twice the flush threshold and Extra more, pairwise distinct
FileLonger ==
    [i \in 1..(2 * FlushThreshold + Extra) |-> Cand(i, i, GoodTs, "rss")]

LongFiles == {Parsed(FileLong), Parsed(FileLongDup), Parsed(FileLonger)}

(***************************************************************************)
(* State.                                                                  *)
(***************************************************************************)
VARIABLES
    db,            \* SeedService.db: "ok" or "nil" (database.GetDB() at construction)
    file,          \* the content of the bulk file the runs read
    store,         \* the news table: committed rows, in insertion order
    nextId,        \* the table's identifier sequence
    pc,            \* per process: position in SeedNewsFromJSON / batchInsertNews
    idx,           \* per process: index of the next candidate of the range loop
    newsList,      \* per process: the accumulation buffer
    importedCount, \* per process: importedCount
    skippedCount,  \* per process: skippedCount
    tx,            \* per process: rows written in the open transaction, uncommitted
    txPos,         \* per process: records of the list already dispatched
    retTo,         \* per process: the call site batchInsertNews returns to
    result,        \* per process: what the last finished call returned and logged
    run,           \* per process: number of the current invocation (0: none yet)
    calls,         \* invocations started so far
    lookupErrs,    \* identity lookups that failed so far
    hist,          \* history: per invocation, what it observed and did
    seen,          \* what the last concurrent read of the table returned
    assoc,         \* re-association handler: requests served and last response
    users,         \* the users table: committed rows, in insertion order
    rssSources,    \* the rss_sources table: committed rows, in insertion order
    env,           \* the process environment: ADMIN_EMAIL, ADMIN_PASSWORD, ADMIN_USERNAME
    boot,          \* history: per process, what its bootstrap call found and created
    listing        \* listing handlers: the last request and the service call made for it

vars == <<db, file, store, nextId, pc, idx, newsList, importedCount, skippedCount,
          tx, txPos, retTo, result, run, calls, lookupErrs, hist, seen, assoc,
          users, rssSources, env, boot, listing>>

(***************************************************************************)
(* Helpers.                                                                *)
(***************************************************************************)
Min(a, b) == IF a < b THEN a ELSE b

\* the lookup with AND in place of OR
MatchesBoth(row, g, l) == row.guid = g /\ row.link = l

\* line 108: Where("guid = ? OR link = ?", guid, link).First(&existingNews)
\* against the committed rows
Matches(row, g, l) == row.guid = g \/ row.link = l

Found(s, g, l) == \E i \in 1..Len(s) : Matches(s[i], g, l)

\* line 67: Model(&models.News{}).Count(&count)
Count(s) == Len(s)

\* no call has returned yet
NoResult ==
    [err |-> "none", cause |-> "none", log |-> "none", imported |-> 0, skipped |-> 0]

\* an error return, fmt.Errorf("<e>: %w", cause): nothing is logged about counts
Failure(e, c) ==
    [err |-> e, cause |-> c, log |-> "none", imported |-> 0, skipped |-> 0]

\* line 72-73: the import is skipped as a whole
Skipped ==
    [err |-> "nil", cause |-> "none", log |-> "skipped", imported |-> 0, skipped |-> 0]

\* line 171-172: the completion log carries both counters
Completed(p) ==
    [err |-> "nil", cause |-> "none", log |-> "completed",
     imported |-> importedCount[p], skipped |-> skippedCount[p]]

H(p) == hist[run[p]]

NewHist(k) ==
    [kind |-> k, startEmpty |-> store = <<>>, sawEmpty |-> FALSE,
     resolved |-> 0, errored |-> 0, batches |-> <<>>]

\* the number of the batchInsertNews call a process is in
BatchNo(p) == Len(H(p).batches)

SetOutcome(p, o) ==
    [hist EXCEPT ![run[p]].batches[BatchNo(p)].outcome = o]

(***************************************************************************)
(* SeedNewsFromJSON, lines 57-173.                                         *)
(***************************************************************************)
\* a call of SeedNewsFromJSON starts
Invoke(p) ==
    /\ pc[p] = "idle"
    /\ calls < MaxCalls
    /\ calls' = calls + 1
    /\ run' = [run EXCEPT ![p] = calls + 1]
    /\ hist' = Append(hist, NewHist("import"))
    /\ pc' = [pc EXCEPT ![p] = "start"]
    /\ result' = [result EXCEPT ![p] = NoResult]
    /\ idx' = [idx EXCEPT ![p] = 0]
    /\ newsList' = [newsList EXCEPT ![p] = <<>>]
    /\ importedCount' = [importedCount EXCEPT ![p] = 0]
    /\ skippedCount' = [skippedCount EXCEPT ![p] = 0]
    /\ UNCHANGED <<db, file, store, nextId, tx, txPos, retTo, lookupErrs, seen, assoc,
                   users, rssSources, env, boot, listing>>

\* lines 61-63: s.db == nil
ReturnDbNil(p) ==
    /\ pc[p] = "start"
    /\ db = "nil"
    /\ pc' = [pc EXCEPT ![p] = "idle"]
    /\ result' = [result EXCEPT ![p] = Failure("database connection not initialized", "none")]
    /\ UNCHANGED <<db, file, store, nextId, idx, newsList, importedCount, skippedCount,
                   tx, txPos, retTo, run, calls, lookupErrs, hist, seen, assoc,
                   users, rssSources, env, boot, listing>>

\* lines 67-69: the count query fails
CountFails(p) ==
    /\ pc[p] = "start"
    /\ db = "ok"
    /\ pc' = [pc EXCEPT ![p] = "idle"]
    /\ result' = [result EXCEPT ![p] = Failure("failed to check existing news count", "count query failed")]
    /\ UNCHANGED <<db, file, store, nextId, idx, newsList, importedCount, skippedCount,
                   tx, txPos, retTo, run, calls, lookupErrs, hist, seen, assoc,
                   users, rssSources, env, boot, listing>>

\* the guard with the comparison count > 1
CountNewsAboveOne(p) ==
    /\ pc[p] = "start"
    /\ db = "ok"
    /\ IF Count(store) > 1
       THEN /\ pc' = [pc EXCEPT ![p] = "idle"]
            /\ result' = [result EXCEPT ![p] = Skipped]
            /\ hist' = hist
       ELSE /\ pc' = [pc EXCEPT ![p] = "read"]
            /\ result' = result
            /\ hist' = [hist EXCEPT ![run[p]].sawEmpty = TRUE]
    /\ UNCHANGED <<db, file, store, nextId, idx, newsList, importedCount, skippedCount,
                   tx, txPos, retTo, run, calls, lookupErrs, seen, assoc,
                   users, rssSources, env, boot, listing>>

\* the call going on whatever the count
CountNewsUnguarded(p) ==
    /\ pc[p] = "start"
    /\ db = "ok"
    /\ pc' = [pc EXCEPT ![p] = "read"]
    /\ hist' = [hist EXCEPT ![run[p]].sawEmpty = Count(store) = 0]
    /\ UNCHANGED <<db, file, store, nextId, idx, newsList, importedCount, skippedCount,
                   tx, txPos, retTo, result, run, calls, lookupErrs, seen, assoc,
                   users, rssSources, env, boot, listing>>

\* lines 67-74: the count query answers; a count above zero skips the import
CountNews(p) ==
    /\ pc[p] = "start"
    /\ db = "ok"
    /\ IF Count(store) > 0
       THEN /\ pc' = [pc EXCEPT ![p] = "idle"]
            /\ result' = [result EXCEPT ![p] = Skipped]
            /\ hist' = hist
       ELSE /\ pc' = [pc EXCEPT ![p] = "read"]
            /\ result' = result
            /\ hist' = [hist EXCEPT ![run[p]].sawEmpty = TRUE]
    /\ UNCHANGED <<db, file, store, nextId, idx, newsList, importedCount, skippedCount,
                   tx, txPos, retTo, run, calls, lookupErrs, seen, assoc,
                   users, rssSources, env, boot, listing>>

\* lines 76-96: read and parse the file, initialise the loop
ReadFile(p) ==
    /\ pc[p] = "read"
    /\ CASE file.kind = "unreadable" ->
              /\ pc' = [pc EXCEPT ![p] = "idle"]
              /\ result' = [result EXCEPT ![p] = Failure("failed to read JSON file", "read failed")]
         [] file.kind = "malformed" ->
              /\ pc' = [pc EXCEPT ![p] = "idle"]
              /\ result' = [result EXCEPT ![p] = Failure("failed to parse JSON data", "unmarshal failed")]
         [] OTHER ->
              /\ pc' = [pc EXCEPT ![p] = "loop"]
              /\ result' = result
    /\ idx' = [idx EXCEPT ![p] = 1]
    /\ newsList' = [newsList EXCEPT ![p] = <<>>]
    /\ importedCount' = [importedCount EXCEPT ![p] = 0]
    /\ skippedCount' = [skippedCount EXCEPT ![p] = 0]
    /\ UNCHANGED <<db, file, store, nextId, tx, txPos, retTo, run, calls, lookupErrs,
                   hist, seen, assoc, users, rssSources, env, boot, listing>>

\* lines 98-116, err == nil: a stored row has the GUID or the link
ResolveDuplicate(p) ==
    /\ pc[p] = "loop"
    /\ idx[p] <= Len(file.items)
    /\ Found(store, file.items[idx[p]].guid, file.items[idx[p]].link)
    /\ skippedCount' = [skippedCount EXCEPT ![p] = @ + 1]
    /\ idx' = [idx EXCEPT ![p] = @ + 1]
    /\ hist' = [hist EXCEPT ![run[p]].resolved = @ + 1]
    /\ UNCHANGED <<db, file, store, nextId, pc, newsList, importedCount, tx, txPos,
                   retTo, result, run, calls, lookupErrs, seen, assoc,
                   users, rssSources, env, boot, listing>>

\* a failed lookup counted as a skipped duplicate
ResolveErrorSkips(p) ==
    /\ pc[p] = "loop"
    /\ idx[p] <= Len(file.items)
    /\ lookupErrs < MaxLookupErrors
    /\ lookupErrs' = lookupErrs + 1
    /\ skippedCount' = [skippedCount EXCEPT ![p] = @ + 1]
    /\ idx' = [idx EXCEPT ![p] = @ + 1]
    /\ hist' = [hist EXCEPT ![run[p]].resolved = @ + 1, ![run[p]].errored = @ + 1]
    /\ UNCHANGED <<db, file, store, nextId, pc, newsList, importedCount,
                   tx, txPos, retTo, result, run, calls, seen, assoc,
                   users, rssSources, env, boot, listing>>

\* lines 113-116: the lookup fails with an error other than ErrRecordNotFound
ResolveError(p) ==
    /\ pc[p] = "loop"
    /\ idx[p] <= Len(file.items)
    /\ lookupErrs < MaxLookupErrors
    /\ lookupErrs' = lookupErrs + 1
    /\ idx' = [idx EXCEPT ![p] = @ + 1]
    /\ hist' = [hist EXCEPT ![run[p]].resolved = @ + 1, ![run[p]].errored = @ + 1]
    /\ UNCHANGED <<db, file, store, nextId, pc, newsList, importedCount, skippedCount,
                   tx, txPos, retTo, result, run, calls, seen, assoc,
                   users, rssSources, env, boot, listing>>

\* the flush test with > in place of >=
ResolveNewAbove(p) ==
    /\ pc[p] = "loop"
    /\ idx[p] <= Len(file.items)
    /\ ~Found(store, file.items[idx[p]].guid, file.items[idx[p]].link)
    /\ newsList' = [newsList EXCEPT ![p] = Append(@, NewsOf(file.items[idx[p]]))]
    /\ importedCount' = [importedCount EXCEPT ![p] = @ + 1]
    /\ idx' = [idx EXCEPT ![p] = @ + 1]
    /\ hist' = [hist EXCEPT ![run[p]].resolved = @ + 1]
    /\ IF Len(newsList'[p]) > FlushThreshold
       THEN /\ pc' = [pc EXCEPT ![p] = "batch"]
            /\ retTo' = [retTo EXCEPT ![p] = "loop"]
       ELSE UNCHANGED <<pc, retTo>>
    /\ UNCHANGED <<db, file, store, nextId, skippedCount, tx, txPos, result, run,
                   calls, lookupErrs, seen, assoc, users, rssSources, env, boot, listing>>

\* lines 108-161, ErrRecordNotFound: the candidate is appended and counted;
\* a buffer of FlushThreshold records is handed to batchInsertNews
ResolveNew(p) ==
    /\ pc[p] = "loop"
    /\ idx[p] <= Len(file.items)
    /\ ~Found(store, file.items[idx[p]].guid, file.items[idx[p]].link)
    /\ newsList' = [newsList EXCEPT ![p] = Append(@, NewsOf(file.items[idx[p]]))]
    /\ importedCount' = [importedCount EXCEPT ![p] = @ + 1]
    /\ idx' = [idx EXCEPT ![p] = @ + 1]
    /\ hist' = [hist EXCEPT ![run[p]].resolved = @ + 1]
    /\ IF Len(newsList'[p]) >= FlushThreshold
       THEN /\ pc' = [pc EXCEPT ![p] = "batch"]
            /\ retTo' = [retTo EXCEPT ![p] = "loop"]
       ELSE UNCHANGED <<pc, retTo>>
    /\ UNCHANGED <<db, file, store, nextId, skippedCount, tx, txPos, result, run,
                   calls, lookupErrs, seen, assoc, users, rssSources, env, boot, listing>>

\* lines 164-172: after the loop the remainder is flushed, or the run completes
EndLoop(p) ==
    /\ pc[p] = "loop"
    /\ idx[p] > Len(file.items)
    /\ IF Len(newsList[p]) > 0
       THEN /\ pc' = [pc EXCEPT ![p] = "batch"]
            /\ retTo' = [retTo EXCEPT ![p] = "final"]
            /\ result' = result
       ELSE /\ pc' = [pc EXCEPT ![p] = "idle"]
            /\ retTo' = retTo
            /\ result' = [result EXCEPT ![p] = Completed(p)]
    /\ UNCHANGED <<db, file, store, nextId, idx, newsList, importedCount, skippedCount,
                   tx, txPos, run, calls, lookupErrs, hist, seen, assoc,
                   users, rssSources, env, boot, listing>>

(***************************************************************************)
(* batchInsertNews, lines 176-189: one transaction around                  *)
(* CreateInBatches(newsList, 50).  Rows written inside the transaction     *)
(* stay in tx[p] and reach the table at commit only.                       *)
(***************************************************************************)
\* the loop going on after a failed flush, the error dropped
BatchReturnSwallow(p, cause) ==
    CASE retTo[p] = "loop" ->
           /\ newsList' = [newsList EXCEPT ![p] = <<>>]
           /\ pc' = [pc EXCEPT ![p] = "loop"]
           /\ result' = result
      [] retTo[p] = "final" ->
           /\ newsList' = newsList
           /\ pc' = [pc EXCEPT ![p] = "idle"]
           /\ result' = [result EXCEPT ![p] =
                            IF cause = "nil" THEN Completed(p)
                            ELSE Failure("failed to insert remaining news", cause)]
      [] OTHER ->
           /\ newsList' = newsList
           /\ pc' = [pc EXCEPT ![p] = "idle"]
           /\ result' = [result EXCEPT ![p] =
                            IF cause = "nil"
                            THEN [NoResult EXCEPT !.err = "nil"]
                            ELSE Failure(cause, "none")]

\* what the caller does with the return value of batchInsertNews:
\* lines 157-160 in the loop, lines 166-172 after it; a direct call just
\* gets the error
BatchReturn(p, cause) ==
    CASE retTo[p] = "loop" ->
           IF cause = "nil"
           THEN /\ newsList' = [newsList EXCEPT ![p] = <<>>]
                /\ pc' = [pc EXCEPT ![p] = "loop"]
                /\ result' = result
           ELSE /\ newsList' = newsList
                /\ pc' = [pc EXCEPT ![p] = "idle"]
                /\ result' = [result EXCEPT
                                ![p] = Failure("failed to batch insert news", cause)]
      [] retTo[p] = "final" ->
           /\ newsList' = newsList
           /\ pc' = [pc EXCEPT ![p] = "idle"]
           /\ result' = [result EXCEPT ![p] =
                            IF cause = "nil" THEN Completed(p)
                            ELSE Failure("failed to insert remaining news", cause)]
      [] OTHER ->
           /\ newsList' = newsList
           /\ pc' = [pc EXCEPT ![p] = "idle"]
           /\ result' = [result EXCEPT ![p] =
                            IF cause = "nil"
                            THEN [NoResult EXCEPT !.err = "nil"]
                            ELSE Failure(cause, "none")]

\* lines 177-182: an empty list returns nil at once, otherwise the
\* transaction begins
BatchBegin(p) ==
    /\ pc[p] = "batch"
    /\ IF Len(newsList[p]) = 0
       THEN /\ hist' = [hist EXCEPT ![run[p]].batches =
                           Append(@, [len |-> 0, at |-> H(p).resolved, outcome |-> "nil"])]
            /\ BatchReturn(p, "nil")
       ELSE /\ hist' = [hist EXCEPT ![run[p]].batches =
                           Append(@, [len |-> Len(newsList[p]), at |-> H(p).resolved,
                                      outcome |-> "open"])]
            /\ pc' = [pc EXCEPT ![p] = "tx"]
            /\ UNCHANGED <<newsList, result>>
    /\ tx' = [tx EXCEPT ![p] = <<>>]
    /\ txPos' = [txPos EXCEPT ![p] = 0]
    /\ UNCHANGED <<db, file, store, nextId, idx, importedCount, skippedCount, retTo,
                   run, calls, lookupErrs, seen, assoc, users, rssSources, env, boot, listing>>

\* the size of the next sub-group CreateInBatches dispatches
ChunkLen(p) == Min(BatchSize, Len(newsList[p]) - txPos[p])

\* the rows one sub-group insert writes
ChunkRows(p) ==
    [i \in 1..ChunkLen(p) |->
        [id |-> nextId + i - 1,
         guid |-> newsList[p][txPos[p] + i].guid,
         link |-> newsList[p][txPos[p] + i].link,
         publishedAt |-> newsList[p][txPos[p] + i].publishedAt,
         sourceType |-> newsList[p][txPos[p] + i].sourceType,
         event |-> NULL,
         run |-> run[p],
         batch |-> BatchNo(p)]]

\* the sub-group written outside any transaction, visible at once
InsertChunkAutocommit(p) ==
    /\ pc[p] = "tx"
    /\ txPos[p] < Len(newsList[p])
    /\ store' = store \o ChunkRows(p)
    /\ txPos' = [txPos EXCEPT ![p] = @ + ChunkLen(p)]
    /\ nextId' = nextId + ChunkLen(p)
    /\ UNCHANGED <<db, file, tx, pc, idx, newsList, importedCount, skippedCount,
                   retTo, result, run, calls, lookupErrs, hist, seen, assoc,
                   users, rssSources, env, boot, listing>>

\* line 184: one sub-group of at most BatchSize records is inserted
InsertChunk(p) ==
    /\ pc[p] = "tx"
    /\ txPos[p] < Len(newsList[p])
    /\ tx' = [tx EXCEPT ![p] = @ \o ChunkRows(p)]
    /\ txPos' = [txPos EXCEPT ![p] = @ + ChunkLen(p)]
    /\ nextId' = nextId + ChunkLen(p)
    /\ UNCHANGED <<db, file, store, pc, idx, newsList, importedCount, skippedCount,
                   retTo, result, run, calls, lookupErrs, hist, seen, assoc,
                   users, rssSources, env, boot, listing>>

\* lines 184-186: a sub-group insert fails; the transaction is rolled back
InsertChunkFails(p) ==
    /\ pc[p] = "tx"
    /\ txPos[p] < Len(newsList[p])
    /\ tx' = [tx EXCEPT ![p] = <<>>]
    /\ hist' = SetOutcome(p, "insert failed")
    /\ BatchReturn(p, "insert failed")
    /\ UNCHANGED <<db, file, store, nextId, idx, importedCount, skippedCount, txPos,
                   retTo, run, calls, lookupErrs, seen, assoc,
                   users, rssSources, env, boot, listing>>

\* lines 182-188: the function returned nil, the transaction commits
Commit(p) ==
    /\ pc[p] = "tx"
    /\ txPos[p] = Len(newsList[p])
    /\ store' = store \o tx[p]
    /\ tx' = [tx EXCEPT ![p] = <<>>]
    /\ hist' = SetOutcome(p, "nil")
    /\ BatchReturn(p, "nil")
    /\ UNCHANGED <<db, file, nextId, idx, importedCount, skippedCount, txPos, retTo,
                   run, calls, lookupErrs, seen, assoc, users, rssSources, env, boot, listing>>

\* lines 182-188: the commit itself fails; nothing of the call is kept
CommitFails(p) ==
    /\ pc[p] = "tx"
    /\ txPos[p] = Len(newsList[p])
    /\ tx' = [tx EXCEPT ![p] = <<>>]
    /\ hist' = SetOutcome(p, "commit failed")
    /\ BatchReturn(p, "commit failed")
    /\ UNCHANGED <<db, file, store, nextId, idx, importedCount, skippedCount, txPos,
                   retTo, run, calls, lookupErrs, seen, assoc,
                   users, rssSources, env, boot, listing>>

(***************************************************************************)
(* UpdateNewsEventAssociation, news_hander.go lines 305-337, over          *)
(* NewsService.UpdateNewsEventAssociationByIDs.                            *)
(***************************************************************************)
\* the error text the handler compares with at line 323
NothingUpdatedMsg == "no news updated, check the news ids"

\* the news identifiers and the event identifiers a request may name
RequestIds == {1, 2, 3}
EventIds == {7}

\* the JSON bodies tried: one that does not bind (malformed, or without
\* news_ids), and every identifier set with every event reference
Requests ==
    {[bound |-> FALSE, ids |-> {}, event |-> NULL]} \cup
    {[bound |-> TRUE, ids |-> S, event |-> e] :
        S \in SUBSET RequestIds, e \in {NULL} \cup EventIds}

\* the rows a single UPDATE ... WHERE id IN ids matches
RowsAffected(s, ids) == Cardinality({i \in 1..Len(s) : s[i].id \in ids})

\* the table after that UPDATE
Reassociated(s, ids, e) ==
    [i \in 1..Len(s) |-> IF s[i].id \in ids THEN [s[i] EXCEPT !.event = e] ELSE s[i]]

\* NewsService.UpdateNewsEventAssociationByIDs: one update statement; a
\* storage failure leaves the table as it was, zero matched rows is the
\* "nothing updated" error
UpdateNewsEventAssociationByIDs(s, ids, e, fault) ==
    IF fault THEN [err |-> "storage failure", store |-> s]
    ELSE IF RowsAffected(s, ids) = 0 THEN [err |-> NothingUpdatedMsg, store |-> s]
    ELSE [err |-> "nil", store |-> Reassociated(s, ids, e)]

BadRequest(m) == [code |-> 400, message |-> m]
InternalServerError(m) == [code |-> 500, message |-> m]
Success(m) == [code |-> 200, message |-> m]

\* the event reference not passed on
ServiceArgsNoEvent(req) == [ids |-> req.ids, event |-> NULL]

\* line 321: the arguments the handler passes to the service
ServiceArgs(req) == [ids |-> req.ids, event |-> req.event]

\* every error of the service answered as an internal error
RespondAllInternal(err, req) ==
    IF err # "nil"
    THEN InternalServerError(err)
    ELSE IF req.event = NULL
         THEN Success("News event association removed successfully")
         ELSE Success("News event association updated successfully")

\* lines 322-336: the response for the service's return value
Respond(err, req) ==
    IF err # "nil"
    THEN IF err = NothingUpdatedMsg THEN BadRequest(err) ELSE InternalServerError(err)
    ELSE IF req.event = NULL
         THEN Success("News event association removed successfully")
         ELSE Success("News event association updated successfully")

\* lines 305-337: the response and the table after the handler has run
Handle(req, s, fault) ==
    IF ~req.bound THEN [resp |-> BadRequest("Invalid request data"), store |-> s]
    ELSE IF Cardinality(req.ids) = 0
    THEN [resp |-> BadRequest("News IDs cannot be empty"), store |-> s]
    ELSE LET a == ServiceArgs(req)
             r == UpdateNewsEventAssociationByIDs(s, a.ids, a.event, fault)
         IN  [resp |-> Respond(r.err, req), store |-> r.store]

NoRequest ==
    [served |-> 0, req |-> [bound |-> FALSE, ids |-> {}, event |-> NULL],
     resp |-> [code |-> 0, message |-> "none"], fault |-> FALSE,
     before |-> <<>>, after |-> <<>>]

\* one request PUT /news/event-association is served
UpdateNewsEventAssociation(req, fault) ==
    /\ assoc.served < MaxRequests
    /\ store' = Handle(req, store, fault).store
    /\ assoc' = [served |-> assoc.served + 1, req |-> req,
                 resp |-> Handle(req, store, fault).resp, fault |-> fault,
                 before |-> store, after |-> store']
    /\ UNCHANGED <<db, file, nextId, pc, idx, newsList, importedCount, skippedCount,
                   tx, txPos, retTo, result, run, calls, lookupErrs, hist, seen,
                   users, rssSources, env, boot, listing>>

(***************************************************************************)
(* SeedInitialAdmin, seed_service.go lines 213-285, over the users table.  *)
(* The format validators of package utils and the schema of models.User    *)
(* are outside the sources at hand: the validators are the sets of texts   *)
(* they accept, and the table takes whatever row Create is given unless    *)
(* the insert fails.                                                       *)
(***************************************************************************)
User(u, e, r) == [username |-> u, email |-> e, role |-> r]

\* no ADMIN_* variable is set
EnvUnset == [ADMIN_EMAIL |-> "", ADMIN_PASSWORD |-> "", ADMIN_USERNAME |-> ""]

\* the environments tried: nothing set, everything set and well-formed, and
\* one ill-formed value each
Envs ==
    {EnvUnset,
     [ADMIN_EMAIL |-> "root@example.org", ADMIN_PASSWORD |-> "s3cret00",
      ADMIN_USERNAME |-> "root"],
     [EnvUnset EXCEPT !.ADMIN_EMAIL = "not-an-email"],
     [EnvUnset EXCEPT !.ADMIN_PASSWORD = "password"],
     [EnvUnset EXCEPT !.ADMIN_USERNAME = "a b"]}

\* the users tables tried: empty, an ordinary account, an ordinary account
\* holding the default admin username, and an administrator
UserTables ==
    {<<>>,
     <<User("alice", "alice@example.org", "user")>>,
     <<User("admin", "old@example.org", "user")>>,
     <<User("boss", "boss@example.org", "admin")>>}

\* lines 231-244: os.Getenv with the fallback for an empty value
Getenv(e, key, default) == IF e[key] = "" THEN default ELSE e[key]

adminEmail(e) == Getenv(e, "ADMIN_EMAIL", "admin@easypeek.com")
adminPassword(e) == Getenv(e, "ADMIN_PASSWORD", "admin123456")
adminUsername(e) == Getenv(e, "ADMIN_USERNAME", "admin")

\* utils.IsValidEmail, utils.IsValidPassword, utils.IsValidUsername
IsValidEmail(t) == t \in {"admin@easypeek.com", "root@example.org"}
IsValidPassword(t) == t \in {"admin123456", "s3cret00"}
IsValidUsername(t) == t \in {"admin", "root"}

\* line 220: Where("role = ?", "admin").Count(&adminCount)
AdminCount(us) == Cardinality({i \in 1..Len(us) : us[i].role = "admin"})

\* line 261: Where("email = ? OR username = ?", adminEmail, adminUsername)
ExistingUser(us, e) ==
    \E i \in 1..Len(us) :
        us[i].email = adminEmail(e) \/ us[i].username = adminUsername(e)

\* lines 266-272: the account that is created
adminUser(e) == User(adminUsername(e), adminEmail(e), "admin")

\* lines 225-228
AdminSkipped ==
    [err |-> "nil", cause |-> "none",
     log |-> "Admin account already exists, skipping seed",
     imported |-> 0, skipped |-> 0]

\* lines 278-284
AdminCreated ==
    [err |-> "nil", cause |-> "none",
     log |-> "Initial admin account created successfully",
     imported |-> 0, skipped |-> 0]

\* no bootstrap call made yet
NoBoot == [op |-> "none", admins |-> 0, sources |-> 0, created |-> 0, found |-> 0 - 1]

\* a bootstrap call starts: what the tables hold at that moment, the rows
\* the call has created, and what its count query answered (-1: not yet)
NewBoot(op) ==
    [op |-> op, admins |-> AdminCount(users), sources |-> Len(rssSources),
     created |-> 0, found |-> 0 - 1]

\* a call of SeedInitialAdmin starts
InvokeAdmin(p) ==
    /\ pc[p] = "idle"
    /\ calls < MaxCalls
    /\ calls' = calls + 1
    /\ boot' = [boot EXCEPT ![p] = NewBoot("admin")]
    /\ pc' = [pc EXCEPT ![p] = "admin"]
    /\ result' = [result EXCEPT ![p] = NoResult]
    /\ UNCHANGED <<db, file, store, nextId, idx, newsList, importedCount, skippedCount,
                   tx, txPos, retTo, run, lookupErrs, hist, seen, assoc,
                   users, rssSources, env, listing>>

\* lines 214-216: s.db == nil
AdminDbNil(p) ==
    /\ pc[p] = "admin"
    /\ db = "nil"
    /\ pc' = [pc EXCEPT ![p] = "idle"]
    /\ result' = [result EXCEPT ![p] = Failure("database connection not initialized", "none")]
    /\ UNCHANGED <<db, file, store, nextId, idx, newsList, importedCount, skippedCount,
                   tx, txPos, retTo, run, calls, lookupErrs, hist, seen, assoc,
                   users, rssSources, env, boot, listing>>

\* lines 220-222: the count query fails
AdminCountFails(p) ==
    /\ pc[p] = "admin"
    /\ db = "ok"
    /\ pc' = [pc EXCEPT ![p] = "idle"]
    /\ result' = [result EXCEPT ![p] = Failure("count query failed", "none")]
    /\ UNCHANGED <<db, file, store, nextId, idx, newsList, importedCount, skippedCount,
                   tx, txPos, retTo, run, calls, lookupErrs, hist, seen, assoc,
                   users, rssSources, env, boot, listing>>

\* lines 247-257: the three format checks, in order
ValidateAdmin(e) ==
    IF ~IsValidEmail(adminEmail(e)) THEN "invalid admin email format"
    ELSE IF ~IsValidPassword(adminPassword(e))
    THEN "admin password must contain at least one letter and one number"
    ELSE IF ~IsValidUsername(adminUsername(e)) THEN "invalid admin username format"
    ELSE "nil"

\* lines 220-257: the count query answers; an administrator on record ends
\* the call, otherwise the configured values are read and validated
CountAdmins(p) ==
    /\ pc[p] = "admin"
    /\ db = "ok"
    /\ IF AdminCount(users) > 0
       THEN /\ pc' = [pc EXCEPT ![p] = "idle"]
            /\ result' = [result EXCEPT ![p] = AdminSkipped]
       ELSE IF ValidateAdmin(env) # "nil"
       THEN /\ pc' = [pc EXCEPT ![p] = "idle"]
            /\ result' = [result EXCEPT ![p] = Failure(ValidateAdmin(env), "none")]
       ELSE /\ pc' = [pc EXCEPT ![p] = "adminLookup"]
            /\ result' = result
    /\ boot' = [boot EXCEPT ![p].found = AdminCount(users)]
    /\ UNCHANGED <<db, file, store, nextId, idx, newsList, importedCount, skippedCount,
                   tx, txPos, retTo, run, calls, lookupErrs, hist, seen, assoc,
                   users, rssSources, env, listing>>

\* lines 260-263, err == nil: an account has the email or the username
AdminLookupFound(p) ==
    /\ pc[p] = "adminLookup"
    /\ ExistingUser(users, env)
    /\ pc' = [pc EXCEPT ![p] = "idle"]
    /\ result' = [result EXCEPT ![p] = Failure("admin email or username already exists", "none")]
    /\ UNCHANGED <<db, file, store, nextId, idx, newsList, importedCount, skippedCount,
                   tx, txPos, retTo, run, calls, lookupErrs, hist, seen, assoc,
                   users, rssSources, env, boot, listing>>

\* lines 260-263, ErrRecordNotFound: the call goes on to create the account
AdminLookupNotFound(p) ==
    /\ pc[p] = "adminLookup"
    /\ ~ExistingUser(users, env)
    /\ pc' = [pc EXCEPT ![p] = "adminCreate"]
    /\ UNCHANGED <<db, file, store, nextId, idx, newsList, importedCount, skippedCount,
                   tx, txPos, retTo, result, run, calls, lookupErrs, hist, seen, assoc,
                   users, rssSources, env, boot, listing>>

\* lines 260-263, any other error: err != nil, the call goes on as well
AdminLookupError(p) ==
    /\ pc[p] = "adminLookup"
    /\ lookupErrs < MaxLookupErrors
    /\ lookupErrs' = lookupErrs + 1
    /\ pc' = [pc EXCEPT ![p] = "adminCreate"]
    /\ UNCHANGED <<db, file, store, nextId, idx, newsList, importedCount, skippedCount,
                   tx, txPos, retTo, result, run, calls, hist, seen, assoc,
                   users, rssSources, env, boot, listing>>

\* lines 274-284: the account is inserted
CreateAdmin(p) ==
    /\ pc[p] = "adminCreate"
    /\ users' = Append(users, adminUser(env))
    /\ boot' = [boot EXCEPT ![p].created = @ + 1]
    /\ pc' = [pc EXCEPT ![p] = "idle"]
    /\ result' = [result EXCEPT ![p] = AdminCreated]
    /\ UNCHANGED <<db, file, store, nextId, idx, newsList, importedCount, skippedCount,
                   tx, txPos, retTo, run, calls, lookupErrs, hist, seen, assoc,
                   rssSources, env, listing>>

\* lines 274-276: the insert fails
CreateAdminFails(p) ==
    /\ pc[p] = "adminCreate"
    /\ pc' = [pc EXCEPT ![p] = "idle"]
    /\ result' = [result EXCEPT ![p] = Failure("insert failed", "none")]
    /\ UNCHANGED <<db, file, store, nextId, idx, newsList, importedCount, skippedCount,
                   tx, txPos, retTo, run, calls, lookupErrs, hist, seen, assoc,
                   users, rssSources, env, boot, listing>>

\* one step of a running SeedInitialAdmin call
SeedInitialAdmin(p) ==
    \/ AdminDbNil(p)
    \/ AdminCountFails(p)
    \/ CountAdmins(p)
    \/ AdminLookupFound(p)
    \/ AdminLookupNotFound(p)
    \/ AdminLookupError(p)
    \/ CreateAdmin(p)
    \/ CreateAdminFails(p)

(***************************************************************************)
(* SeedRSSources, seed_service.go lines 301-351, over the rss_sources      *)
(* table.                                                                  *)
(***************************************************************************)
RSSSource(n, u) == [name |-> n, url |-> u]

\* lines 319-340: the two default sources, in order
defaultSources ==
    <<RSSSource("sina", "http://rss.sina.com.cn/news/china/focus15.xml"),
      RSSSource("netease", "http://rss.163.com/rss/tech_index.xml")>>

\* the rss_sources tables tried: empty, a source of the operator's own, one
\* of the defaults, both defaults
SourceTables ==
    {<<>>,
     <<RSSSource("own", "http://example.org/feed.xml")>>,
     <<defaultSources[2]>>,
     defaultSources}

\* lines 313-316
RSSSkipped ==
    [err |-> "nil", cause |-> "none", log |-> "RSS sources already exist, skipping seed",
     imported |-> 0, skipped |-> 0]

\* line 350: return nil after the loop, whatever the inserts did
RSSSeeded ==
    [err |-> "nil", cause |-> "none", log |-> "seeded", imported |-> 0, skipped |-> 0]

\* a call of SeedRSSources starts
InvokeRSS(p) ==
    /\ pc[p] = "idle"
    /\ calls < MaxCalls
    /\ calls' = calls + 1
    /\ boot' = [boot EXCEPT ![p] = NewBoot("rss")]
    /\ pc' = [pc EXCEPT ![p] = "rss"]
    /\ result' = [result EXCEPT ![p] = NoResult]
    /\ idx' = [idx EXCEPT ![p] = 0]
    /\ UNCHANGED <<db, file, store, nextId, newsList, importedCount, skippedCount,
                   tx, txPos, retTo, run, lookupErrs, hist, seen, assoc,
                   users, rssSources, env, listing>>

\* lines 302-304: s.db == nil
RSSDbNil(p) ==
    /\ pc[p] = "rss"
    /\ db = "nil"
    /\ pc' = [pc EXCEPT ![p] = "idle"]
    /\ result' = [result EXCEPT ![p] = Failure("database connection not initialized", "none")]
    /\ UNCHANGED <<db, file, store, nextId, idx, newsList, importedCount, skippedCount,
                   tx, txPos, retTo, run, calls, lookupErrs, hist, seen, assoc,
                   users, rssSources, env, boot, listing>>

\* lines 308-310: the count query fails
RSSCountFails(p) ==
    /\ pc[p] = "rss"
    /\ db = "ok"
    /\ pc' = [pc EXCEPT ![p] = "idle"]
    /\ result' = [result EXCEPT ![p] = Failure("count query failed", "none")]
    /\ UNCHANGED <<db, file, store, nextId, idx, newsList, importedCount, skippedCount,
                   tx, txPos, retTo, run, calls, lookupErrs, hist, seen, assoc,
                   users, rssSources, env, boot, listing>>

\* the guard with the comparison rssCount > 1
CountSourcesAboveOne(p) ==
    /\ pc[p] = "rss"
    /\ db = "ok"
    /\ IF Len(rssSources) > 1
       THEN /\ pc' = [pc EXCEPT ![p] = "idle"]
            /\ result' = [result EXCEPT ![p] = RSSSkipped]
            /\ idx' = idx
       ELSE /\ pc' = [pc EXCEPT ![p] = "rssLoop"]
            /\ result' = result
            /\ idx' = [idx EXCEPT ![p] = 1]
    /\ boot' = [boot EXCEPT ![p].found = Len(rssSources)]
    /\ UNCHANGED <<db, file, store, nextId, newsList, importedCount, skippedCount,
                   tx, txPos, retTo, run, calls, lookupErrs, hist, seen, assoc,
                   users, rssSources, env, listing>>

\* lines 308-316: the count query answers; a source on record ends the call
CountSources(p) ==
    /\ pc[p] = "rss"
    /\ db = "ok"
    /\ IF Len(rssSources) > 0
       THEN /\ pc' = [pc EXCEPT ![p] = "idle"]
            /\ result' = [result EXCEPT ![p] = RSSSkipped]
            /\ idx' = idx
       ELSE /\ pc' = [pc EXCEPT ![p] = "rssLoop"]
            /\ result' = result
            /\ idx' = [idx EXCEPT ![p] = 1]
    /\ boot' = [boot EXCEPT ![p].found = Len(rssSources)]
    /\ UNCHANGED <<db, file, store, nextId, newsList, importedCount, skippedCount,
                   tx, txPos, retTo, run, calls, lookupErrs, hist, seen, assoc,
                   users, rssSources, env, listing>>

\* lines 342-350: the loop moves on; after the last source the call returns nil
NextSource(p) ==
    /\ idx' = [idx EXCEPT ![p] = @ + 1]
    /\ IF idx[p] = Len(defaultSources)
       THEN /\ pc' = [pc EXCEPT ![p] = "idle"]
            /\ result' = [result EXCEPT ![p] = RSSSeeded]
       ELSE UNCHANGED <<pc, result>>

\* lines 342-347: one default source is inserted
CreateSource(p) ==
    /\ pc[p] = "rssLoop"
    /\ idx[p] <= Len(defaultSources)
    /\ rssSources' = Append(rssSources, defaultSources[idx[p]])
    /\ boot' = [boot EXCEPT ![p].created = @ + 1]
    /\ NextSource(p)
    /\ UNCHANGED <<db, file, store, nextId, newsList, importedCount, skippedCount,
                   tx, txPos, retTo, run, calls, lookupErrs, hist, seen, assoc,
                   users, env, listing>>

\* lines 343-344: the insert fails, which is logged and nothing more
CreateSourceFails(p) ==
    /\ pc[p] = "rssLoop"
    /\ idx[p] <= Len(defaultSources)
    /\ NextSource(p)
    /\ UNCHANGED <<db, file, store, nextId, newsList, importedCount, skippedCount,
                   tx, txPos, retTo, run, calls, lookupErrs, hist, seen, assoc,
                   users, rssSources, env, boot, listing>>

\* one step of a running SeedRSSources call
SeedRSSources(p) ==
    \/ RSSDbNil(p)
    \/ RSSCountFails(p)
    \/ CountSources(p)
    \/ CreateSource(p)
    \/ CreateSourceFails(p)

(***************************************************************************)
(* The paginated listing handlers of news_hander.go: GetAllNews (86-117),  *)
(* SearchNews (178-216), GetNewsByCategory (240-273) and GetUnlinkedNews   *)
(* (276-303).  A query value is the sequence of its characters; a query    *)
(* string is the list of its key=value pairs.                              *)
(***************************************************************************)
Digits == {"0", "1", "2", "3", "4", "5", "6", "7", "8", "9"}

DigitVal(c) ==
    CASE c = "0" -> 0 [] c = "1" -> 1 [] c = "2" -> 2 [] c = "3" -> 3 [] c = "4" -> 4
      [] c = "5" -> 5 [] c = "6" -> 6 [] c = "7" -> 7 [] c = "8" -> 8 [] c = "9" -> 9

\* the value of a sequence of decimal digits
RECURSIVE DecimalValue(_)
DecimalValue(t) ==
    IF t = <<>> THEN 0
    ELSE 10 * DecimalValue(SubSeq(t, 1, Len(t) - 1)) + DigitVal(t[Len(t)])

\* the digits left after the leading zeros
RECURSIVE Significant(_)
Significant(t) ==
    IF t # <<>> /\ t[1] = "0" THEN Significant(Tail(t)) ELSE t

\* the longest decimal numeral of a 64-bit int has this many digits
MaxIntDigits == 19

\* twenty digits, beyond any 64-bit int
TooLong == [i \in 1..(MaxIntDigits + 1) |-> "9"]

\* strconv.Atoi: an optional sign and one or more decimal digits; anything
\* else is a syntax error, and a numeral of more than MaxIntDigits
\* significant digits a range error.  (The texts tried have at most three
\* significant digits or more than MaxIntDigits.)
Atoi(t) ==
    LET signed == t # <<>> /\ t[1] \in {"+", "-"}
        body   == IF signed THEN Tail(t) ELSE t
    IN  IF body = <<>> \/ \E i \in 1..Len(body) : body[i] \notin Digits
        THEN [err |-> "syntax", n |-> 0]
        ELSE IF Len(Significant(body)) > MaxIntDigits
        THEN [err |-> "range", n |-> 0]
        ELSE [err |-> "nil",
              n |-> IF signed /\ t[1] = "-" THEN 0 - DecimalValue(body)
                    ELSE DecimalValue(body)]

\* the values of page and size tried
Texts ==
    {<<>>, <<"0">>, <<"1">>, <<"2">>, <<"1", "0">>, <<"1", "0", "0">>,
     <<"1", "0", "1">>, <<"5", "0", "0">>, <<"-", "1">>, <<"-">>, <<"+", "5">>,
     <<"0", "0", "7">>, <<"a", "b", "c">>, <<"1", "e", "2">>, <<" ", "5">>,
     <<"5", ".", "0">>, TooLong}

\* values tried for page and size together
BothTexts == {<<"0">>, <<"2">>, <<"5", "0", "0">>, <<"a", "b", "c">>}

\* the query strings tried, as lists of key=value pairs: none, page alone
\* and size alone with each of Texts, and both with each of BothTexts
QueryStrings ==
    {<<>>} \cup {<<<<"page", v>>>> : v \in Texts} \cup {<<<<"size", v>>>> : v \in Texts}
    \cup {<<<<"page", v>>, <<"size", w>>>> : v \in BothTexts, w \in BothTexts}

\* the query string carries the key
HasKey(q, key) == \E i \in 1..Len(q) : q[i][1] = key

\* the value of the first pair with the key
FirstValue(q, key) ==
    q[CHOOSE i \in 1..Len(q) :
        q[i][1] = key /\ \A j \in 1..(i - 1) : q[j][1] # key][2]

\* gin's c.DefaultQuery(key, def): def only when the key is absent
DefaultQuery(q, key, def) == IF HasKey(q, key) THEN FirstValue(q, key) ELSE def

\* lines 88-95 (187-194, 248-254, 278-284): the page passed to the service
Page(q) ==
    LET r == Atoi(DefaultQuery(q, "page", <<"1">>))
    IN  IF r.err # "nil" \/ r.n < 1 THEN 1 ELSE r.n

\* a size above the maximum cut down to the maximum
SizeClamped(q) ==
    LET r == Atoi(DefaultQuery(q, "size", <<"1", "0">>))
    IN  IF r.err # "nil" \/ r.n < 1 THEN 10 ELSE IF r.n > 100 THEN 100 ELSE r.n

\* lines 89-99 (188-198, 249-258, 279-288): the size passed to the service
Size(q) ==
    LET r == Atoi(DefaultQuery(q, "size", <<"1", "0">>))
    IN  IF r.err # "nil" \/ r.n < 1 \/ r.n > 100 THEN 10 ELSE r.n

\* no listing request served yet
NoListing ==
    [code |-> 0, op |-> "none", q |-> <<>>, called |-> FALSE, page |-> 0,
     size |-> 0, text |-> ""]

\* the handler answered 400 without calling the service
Rejected(o, qs, a) ==
    [code |-> 400, op |-> o, q |-> qs, called |-> FALSE, page |-> 0, size |-> 0,
     text |-> a]

\* the handler called the service with Page(q) and Size(q); an error of
\* the service is answered 500, a result 200
Listed(o, qs, a, fault) ==
    [code |-> IF fault THEN 500 ELSE 200, op |-> o, q |-> qs, called |-> TRUE,
     page |-> Page(qs), size |-> Size(qs), text |-> a]

\* lines 86-117: GET /news
GetAllNews(q, fault) ==
    /\ listing' = Listed("GetAllNews", q, "", fault)
    /\ UNCHANGED <<db, file, store, nextId, pc, idx, newsList, importedCount,
                   skippedCount, tx, txPos, retTo, result, run, calls, lookupErrs,
                   hist, seen, assoc, users, rssSources, env, boot>>

\* lines 178-216: GET /news/search; an empty query text is rejected
SearchNews(q, queryStr, fault) ==
    /\ listing' = IF queryStr = "" THEN Rejected("SearchNews", q, queryStr)
                  ELSE Listed("SearchNews", q, queryStr, fault)
    /\ UNCHANGED <<db, file, store, nextId, pc, idx, newsList, importedCount,
                   skippedCount, tx, txPos, retTo, result, run, calls, lookupErrs,
                   hist, seen, assoc, users, rssSources, env, boot>>

\* lines 240-273: GET /news/category/:category; an empty category is rejected
GetNewsByCategory(q, category, fault) ==
    /\ listing' = IF category = "" THEN Rejected("GetNewsByCategory", q, category)
                  ELSE Listed("GetNewsByCategory", q, category, fault)
    /\ UNCHANGED <<db, file, store, nextId, pc, idx, newsList, importedCount,
                   skippedCount, tx, txPos, retTo, result, run, calls, lookupErrs,
                   hist, seen, assoc, users, rssSources, env, boot>>

\* lines 276-303: GET /news/unlinked
GetUnlinkedNews(q, fault) ==
    /\ listing' = Listed("GetUnlinkedNews", q, "", fault)
    /\ UNCHANGED <<db, file, store, nextId, pc, idx, newsList, importedCount,
                   skippedCount, tx, txPos, retTo, result, run, calls, lookupErrs,
                   hist, seen, assoc, users, rssSources, env, boot>>

(***************************************************************************)
(* Initial state and specifications.                                       *)
(***************************************************************************)
InitImport(files, dbs) ==
    /\ db \in dbs
    /\ file \in files
    /\ store = <<>>
    /\ nextId = 1
    /\ pc = [p \in Procs |-> "idle"]
    /\ idx = [p \in Procs |-> 0]
    /\ newsList = [p \in Procs |-> <<>>]
    /\ importedCount = [p \in Procs |-> 0]
    /\ skippedCount = [p \in Procs |-> 0]
    /\ tx = [p \in Procs |-> <<>>]
    /\ txPos = [p \in Procs |-> 0]
    /\ retTo = [p \in Procs |-> "none"]
    /\ result = [p \in Procs |-> NoResult]
    /\ run = [p \in Procs |-> 0]
    /\ calls = 0
    /\ lookupErrs = 0
    /\ hist = <<>>
    /\ seen = {}
    /\ assoc = NoRequest

\* the tables and the environment of the bootstrap operations
InitBoot(tables, sources, envs) ==
    /\ users \in tables
    /\ rssSources \in sources
    /\ env \in envs
    /\ boot = [p \in Procs |-> NoBoot]

InitWith(files, dbs) ==
    /\ InitImport(files, dbs)
    /\ InitBoot({<<>>}, {<<>>}, {EnvUnset})
    /\ listing = NoListing

Init == InitWith(SmallFiles, {"ok", "nil"})

\* one step of batchInsertNews
BatchStep(p) ==
    \/ BatchBegin(p)
    \/ InsertChunk(p)
    \/ InsertChunkFails(p)
    \/ Commit(p)
    \/ CommitFails(p)

\* one step of a running SeedNewsFromJSON call whose identity lookups answer
StepAnswered(p) ==
    \/ ReturnDbNil(p)
    \/ CountFails(p)
    \/ CountNews(p)
    \/ ReadFile(p)
    \/ ResolveDuplicate(p)
    \/ ResolveNew(p)
    \/ EndLoop(p)
    \/ BatchStep(p)

\* one step of a running SeedNewsFromJSON call
Step(p) == StepAnswered(p) \/ ResolveError(p)

\* concurrent callers of SeedNewsFromJSON
Next == \E p \in Procs : Invoke(p) \/ Step(p)

Spec == Init /\ [][Next]_vars

\* one caller of SeedNewsFromJSON at a time, reading a file longer than
\* the flush threshold; identity lookups that fail are explored by Spec
InitSeq == InitWith(LongFiles, {"ok", "nil"})

NextSeq == Invoke("p1") \/ StepAnswered("p1")

SpecSeq == InitSeq /\ [][NextSeq]_vars

(***************************************************************************)
(* batchInsertNews called on its own, with a concurrent reader.            *)
(***************************************************************************)
\* the list lengths tried: empty, one record, one full sub-group, one more,
\* two full sub-groups, and a list longer than the flush threshold
BatchLens == {0, 1, BatchSize, BatchSize + 1, 2 * BatchSize, FlushThreshold + Extra}

NewsList(n) == [i \in 1..n |-> NewsOf(Cand(i, i, GoodTs, "rss"))]

\* a call batchInsertNews(newsList) with a list of n records
BatchCall(p, n) ==
    /\ pc[p] = "idle"
    /\ calls < MaxCalls
    /\ calls' = calls + 1
    /\ run' = [run EXCEPT ![p] = calls + 1]
    /\ hist' = Append(hist, NewHist("batch"))
    /\ pc' = [pc EXCEPT ![p] = "batch"]
    /\ retTo' = [retTo EXCEPT ![p] = "direct"]
    /\ result' = [result EXCEPT ![p] = NoResult]
    /\ newsList' = [newsList EXCEPT ![p] = NewsList(n)]
    /\ UNCHANGED <<db, file, store, nextId, idx, importedCount, skippedCount, tx,
                   txPos, lookupErrs, seen, assoc, users, rssSources, env, boot, listing>>

\* the rows of each batchInsertNews call that a query of the table returns:
\* triples <<invocation, call, number of rows>>
Visible(s) ==
    LET calls_ == {<<s[i].run, s[i].batch>> : i \in 1..Len(s)}
    IN  {<<c[1], c[2],
           Cardinality({j \in 1..Len(s) : s[j].run = c[1] /\ s[j].batch = c[2]})>> :
            c \in calls_}

\* a concurrent reader lists the table (read committed: it sees the
\* committed rows and nothing of an open transaction)
Observe ==
    /\ seen' = Visible(store)
    /\ seen' # seen
    /\ UNCHANGED <<db, file, store, nextId, pc, idx, newsList, importedCount,
                   skippedCount, tx, txPos, retTo, result, run, calls, lookupErrs,
                   hist, assoc, users, rssSources, env, boot, listing>>

NextBatch ==
    \/ \E n \in BatchLens : BatchCall("p1", n)
    \/ BatchStep("p1")
    \/ Observe

InitBatch == InitWith({Parsed(<<>>)}, {"ok"})

SpecBatch == InitBatch /\ [][NextBatch]_vars

(***************************************************************************)
(* The re-association handler beside a writer of the news table.           *)
(***************************************************************************)
InitAssoc == InitWith({Parsed(<<>>)}, {"ok"})

NextAssoc ==
    \/ \E n \in {1, 3} : BatchCall("p1", n)
    \/ BatchStep("p1")
    \/ \E req \in Requests, fault \in BOOLEAN : UpdateNewsEventAssociation(req, fault)

SpecAssoc == InitAssoc /\ [][NextAssoc]_vars

(***************************************************************************)
(* The bootstrap operations, each with concurrent callers, and the         *)
(* listing handlers.                                                       *)
(***************************************************************************)
InitAdmin ==
    /\ InitImport({Parsed(<<>>)}, {"ok", "nil"})
    /\ InitBoot(UserTables, {<<>>}, Envs)
    /\ listing = NoListing

NextAdmin == \E p \in Procs : InvokeAdmin(p) \/ SeedInitialAdmin(p)

SpecAdmin == InitAdmin /\ [][NextAdmin]_vars

InitRSS ==
    /\ InitImport({Parsed(<<>>)}, {"ok", "nil"})
    /\ InitBoot({<<>>}, SourceTables, {EnvUnset})
    /\ listing = NoListing

NextRSS == \E p \in Procs : InvokeRSS(p) \/ SeedRSSources(p)

SpecRSS == InitRSS /\ [][NextRSS]_vars

InitListing == InitWith({Parsed(<<>>)}, {"ok"})

NextListing ==
    \E q \in QueryStrings, fault \in BOOLEAN :
        \/ GetAllNews(q, fault)
        \/ \E queryStr \in {"", "flood"} : SearchNews(q, queryStr, fault)
        \/ \E category \in {"", "tech"} : GetNewsByCategory(q, category, fault)
        \/ GetUnlinkedNews(q, fault)

SpecListing == InitListing /\ [][NextListing]_vars

(***************************************************************************)
(* Properties.                                                             *)
(***************************************************************************)
Runs == 1..Len(hist)

\* the indices of the committed rows an invocation wrote
RowsOf(r) == {i \in 1..Len(store) : store[i].run = r}

\* C1: of the SeedNewsFromJSON runs that start on an empty table, however
\* they interleave, at most one proceeds to commit records: the committed
\* rows are the rows of at most one run.
C1_AtMostOneBulkImport ==
    Cardinality({store[i].run : i \in 1..Len(store)}) <= 1

C3_InRunDuplicateSkipped ==
    \A p \in Procs :
        (calls = 1 /\ run[p] = 1 /\ pc[p] = "idle" /\ result[p].log = "completed"
         /\ H(p).errored = 0) =>
            /\ file = Parsed(FileGuidDup) =>
                   result[p].imported = 1 /\ result[p].skipped = 1
            /\ \A i, j \in 1..Len(store) :
                   i # j => store[i].guid # store[j].guid /\ store[i].link # store[j].link

\* a stored row carries the candidate's GUID or its link
DuplicateOfStored(c) ==
    \E i \in 1..Len(store) : store[i].guid = c.guid \/ store[i].link = c.link

\* the step in which process p resolves its current candidate
Resolving(p) ==
    pc[p] = "loop" /\ idx[p] <= Len(file.items) /\ idx'[p] = idx[p] + 1

\* C4 as written: a candidate resolved while a committed row has its GUID or
\* its link is not appended, not counted as imported, and counted as skipped
\* once; a candidate matching on neither is not counted as skipped.
C4_DuplicateCountedOnce ==
    [][\A p \in Procs :
         Resolving(p) =>
            IF DuplicateOfStored(file.items[idx[p]])
            THEN /\ skippedCount'[p] = skippedCount[p] + 1
                 /\ importedCount'[p] = importedCount[p]
                 /\ newsList'[p] = newsList[p]
            ELSE skippedCount'[p] = skippedCount[p]]_vars

\* C4 amended: such a candidate is never appended nor counted as imported,
\* and is counted as skipped once when its lookup answers (a candidate whose
\* lookup fails is dropped uncounted); a candidate matching on neither is
\* not counted as skipped.
C4_AnsweredDuplicateCountedOnce ==
    [][\A p \in Procs :
         Resolving(p) =>
            IF DuplicateOfStored(file.items[idx[p]])
            THEN /\ importedCount'[p] = importedCount[p]
                 /\ newsList'[p] = newsList[p]
                 /\ skippedCount'[p] =
                        skippedCount[p] + (IF lookupErrs' = lookupErrs THEN 1 ELSE 0)
            ELSE skippedCount'[p] = skippedCount[p]]_vars

\* a candidate has just been skipped for its GUID alone: a stored row has
\* its GUID and none has its link
C4_Witness ==
    \E p \in Procs :
        /\ pc[p] = "loop" /\ idx[p] > 1 /\ skippedCount[p] >= 1
        /\ \E i \in 1..Len(store) : store[i].guid = file.items[idx[p] - 1].guid
        /\ \A i \in 1..Len(store) : store[i].link # file.items[idx[p] - 1].link

\* the committed rows of one batchInsertNews call
RowsOfBatch(r, k) == {i \in 1..Len(store) : store[i].run = r /\ store[i].batch = k}

FailedBatch(b) == b.outcome \in {"insert failed", "commit failed"}

\* C5: of every batchInsertNews call the table holds all the records of the
\* list if the call returned nil, and none otherwise (none while it is
\* running, none after a failed sub-group or commit); a reader never sees a
\* part of a call's list; the call returns an error exactly when it failed;
\* an empty list returns nil and writes nothing.
C5_BatchAllOrNothing ==
    /\ \A r \in Runs : \A k \in 1..Len(hist[r].batches) :
          Cardinality(RowsOfBatch(r, k)) =
              IF hist[r].batches[k].outcome = "nil" THEN hist[r].batches[k].len ELSE 0
    /\ \A t \in seen : t[3] = hist[t[1]].batches[t[2]].len
    /\ \A p \in Procs :
          (run[p] > 0 /\ pc[p] = "idle" /\ retTo[p] = "direct") =>
              /\ FailedBatch(H(p).batches[1]) <=> result[p].err # "nil"
              /\ result[p].err \in {"nil", H(p).batches[1].outcome}
              /\ H(p).batches[1].len = 0 => result[p].err = "nil"

\* a call on a list of two sub-groups failed on the second one after the
\* first had been written
C5_Witness ==
    /\ calls = 1
    /\ Len(hist[1].batches) = 1
    /\ hist[1].batches[1].len = 2 * BatchSize
    /\ hist[1].batches[1].outcome = "insert failed"
    /\ nextId = BatchSize + 1
    /\ store = <<>>

\* C6: the buffer never exceeds FlushThreshold records and is handed to the
\* batch writer in the very step it reaches FlushThreshold, so every flush
\* inside the loop has exactly FlushThreshold records; a run that completes
\* has persisted each accepted record once, the remainder in a last flush;
\* FlushThreshold + Extra accepted records are one flush of FlushThreshold,
\* then one of Extra.
C6_FlushAtThreshold ==
    \A p \in Procs :
        run[p] > 0 =>
            /\ Len(newsList[p]) <= FlushThreshold
            /\ pc[p] = "loop" => Len(newsList[p]) < FlushThreshold
            /\ (pc[p] \in {"batch", "tx"} /\ retTo[p] = "loop") =>
                   Len(newsList[p]) = FlushThreshold
            /\ \A k \in 1..(Len(H(p).batches) - 1) :
                   /\ H(p).batches[k].len = FlushThreshold
                   /\ H(p).batches[k].outcome = "nil"
            /\ (pc[p] = "idle" /\ result[p].log = "completed") =>
                   /\ \A k \in 1..Len(H(p).batches) :
                          /\ H(p).batches[k].len \in 1..FlushThreshold
                          /\ H(p).batches[k].outcome = "nil"
                   /\ Cardinality(RowsOf(run[p])) = result[p].imported
                   /\ Len(H(p).batches) > 0 =>
                          result[p].imported =
                              (Len(H(p).batches) - 1) * FlushThreshold
                              + H(p).batches[Len(H(p).batches)].len
                   /\ file = Parsed(FileLong) =>
                          /\ Len(H(p).batches) = 2
                          /\ H(p).batches[1].len = FlushThreshold
                          /\ H(p).batches[2].len = Extra
                          /\ Len(store) = FlushThreshold + Extra
                          /\ \A g \in 1..(FlushThreshold + Extra) :
                                 Cardinality({i \in 1..Len(store) : store[i].guid = g}) = 1

\* a run over FlushThreshold + Extra distinct records has completed
C6_Witness ==
    \E p \in Procs :
        /\ run[p] > 0 /\ pc[p] = "idle" /\ result[p].log = "completed"
        /\ file = Parsed(FileLong)
        /\ result[p].imported = FlushThreshold + Extra
        /\ Len(store) = FlushThreshold + Extra

\* C7: when a flush of a run fails, that flush is the run's last, no
\* candidate is resolved after it, only the earlier flushes' rows are
\* committed, and the call has returned one error that wraps the cause and
\* logged no counts.
C7_FlushFailureAborts ==
    \A r \in Runs : \A k \in 1..Len(hist[r].batches) :
        (hist[r].kind = "import" /\ FailedBatch(hist[r].batches[k])) =>
            /\ k = Len(hist[r].batches)
            /\ hist[r].resolved = hist[r].batches[k].at
            /\ Cardinality(RowsOf(r)) = (k - 1) * FlushThreshold
            /\ \A p \in Procs :
                   run[p] = r =>
                       /\ pc[p] = "idle"
                       /\ result[p].err \in {"failed to batch insert news",
                                             "failed to insert remaining news"}
                       /\ result[p].cause = hist[r].batches[k].outcome
                       /\ result[p].log = "none"
                       /\ result[p].imported = 0 /\ result[p].skipped = 0

\* the first flush of a run failed inside the loop, with candidates left
C7_Witness ==
    \E r \in Runs :
        /\ hist[r].kind = "import"
        /\ Len(hist[r].batches) = 1
        /\ FailedBatch(hist[r].batches[1])
        /\ hist[r].resolved = FlushThreshold
        /\ hist[r].resolved < Len(file.items)

\* C8: a candidate whose lookup fails is counted neither as imported nor as
\* skipped and is not inserted, the loop goes on with the next candidate,
\* and a run that completes has imported + skipped + failed lookups equal to
\* the number of candidates.
C8_LookupErrorIsolated ==
    \A p \in Procs :
        (run[p] > 0 /\ H(p).kind = "import") =>
            /\ pc[p] \in {"loop", "batch", "tx"} =>
                   /\ importedCount[p] + skippedCount[p] + H(p).errored = idx[p] - 1
                   /\ H(p).resolved = idx[p] - 1
                   /\ Cardinality(RowsOf(run[p])) + Len(newsList[p]) = importedCount[p]
            /\ (pc[p] = "idle" /\ H(p).errored > 0) =>
                   \/ result[p].log = "completed"
                   \/ \E k \in 1..Len(H(p).batches) : FailedBatch(H(p).batches[k])
            /\ (pc[p] = "idle" /\ result[p].log = "completed") =>
                   /\ result[p].imported + result[p].skipped + H(p).errored
                          = Len(file.items)
                   /\ Cardinality(RowsOf(run[p])) = result[p].imported

\* a run has completed after one of its lookups failed
C8_Witness ==
    \E p \in Procs :
        /\ run[p] > 0 /\ pc[p] = "idle" /\ result[p].log = "completed"
        /\ H(p).errored = 1
        /\ result[p].imported >= 1

\* the identifiers of the rows of a table
IdsOf(s) == {s[i].id : i \in 1..Len(s)}

\* the last request named identifiers, none of them of a stored row
NoneMatched ==
    /\ assoc.served > 0
    /\ assoc.req.bound
    /\ assoc.req.ids # {}
    /\ assoc.req.ids \cap IdsOf(assoc.before) = {}

\* C9 as written: a request that names identifiers none of which is stored
\* is answered 400 with the nothing-updated error, which is neither the
\* empty-list rejection nor a storage failure, and no row changes.
C9_NothingUpdated ==
    NoneMatched =>
        /\ assoc.resp = BadRequest(NothingUpdatedMsg)
        /\ assoc.resp # BadRequest("News IDs cannot be empty")
        /\ assoc.resp.code # 500
        /\ assoc.after = assoc.before

\* C9 amended: such a request changes no row and is answered 400 with the
\* nothing-updated error, unless the update itself fails in storage, when it
\* is answered 500 with the storage failure.
C9_NothingUpdatedUnlessStorageFails ==
    NoneMatched =>
        /\ assoc.after = assoc.before
        /\ assoc.resp =
               IF assoc.fault THEN InternalServerError("storage failure")
               ELSE BadRequest(NothingUpdatedMsg)
        /\ assoc.resp # BadRequest("News IDs cannot be empty")
        /\ ~assoc.fault => assoc.resp.code # 500

\* rows are stored, the request named only other identifiers and was
\* answered with the nothing-updated error
C9_Witness ==
    /\ NoneMatched
    /\ Len(assoc.before) >= 1
    /\ ~assoc.fault
    /\ assoc.resp = BadRequest(NothingUpdatedMsg)

\* C10: a request answered 200 has set the event reference of exactly the
\* rows it named to the event it named (none when it named none) and left
\* every other row as it was, and the table never holds anything between
\* the rows before and the rows after a request.
C10_ExactRowsReassociated ==
    /\ (assoc.served > 0 /\ assoc.resp.code = 200) =>
          /\ Len(assoc.after) = Len(assoc.before)
          /\ \A i \in 1..Len(assoc.before) :
                assoc.after[i] =
                    IF assoc.before[i].id \in assoc.req.ids
                    THEN [assoc.before[i] EXCEPT !.event = assoc.req.event]
                    ELSE assoc.before[i]
    /\ Len(assoc.after) <= Len(store)
    /\ \A i \in 1..Len(store) :
          store[i] = IF i <= Len(assoc.after) THEN assoc.after[i]
                     ELSE [store[i] EXCEPT !.event = NULL]

\* a request cleared the event of two rows and left a third row's event
C10_Witness ==
    /\ assoc.served > 0 /\ assoc.resp.code = 200
    /\ assoc.req.event = NULL
    /\ \E i, j, k \in 1..Len(assoc.before) :
          /\ i # j
          /\ {assoc.before[i].id, assoc.before[j].id} = assoc.req.ids
          /\ assoc.before[i].event # NULL /\ assoc.before[j].event # NULL
          /\ assoc.after[i].event = NULL /\ assoc.after[j].event = NULL
          /\ assoc.before[k].id \notin assoc.req.ids
          /\ assoc.after[k].event # NULL

\* C11: however many SeedInitialAdmin calls run, one after another or at
\* once, the users table never holds more than one account with role admin
\* (no table tried starts with more than one).
C11_AtMostOneAdmin == AdminCount(users) <= 1

\* the integer a query value denotes, read off the text itself: a numeral
\* that fits an int, or not an integer at all
Int_(n) == [int |-> TRUE, n |-> n]

Denoted(t) ==
    CASE t = <<"0">> -> Int_(0)
      [] t = <<"1">> -> Int_(1)
      [] t = <<"2">> -> Int_(2)
      [] t = <<"1", "0">> -> Int_(10)
      [] t = <<"1", "0", "0">> -> Int_(100)
      [] t = <<"1", "0", "1">> -> Int_(101)
      [] t = <<"5", "0", "0">> -> Int_(500)
      [] t = <<"-", "1">> -> Int_(0 - 1)
      [] t = <<"+", "5">> -> Int_(5)
      [] t = <<"0", "0", "7">> -> Int_(7)
      [] OTHER -> [int |-> FALSE, n |-> 0]

\* the page and the size the claim prescribes for a query string
SanitisedPage(q) ==
    IF ~HasKey(q, "page") THEN 1
    ELSE IF ~Denoted(FirstValue(q, "page")).int THEN 1
    ELSE IF Denoted(FirstValue(q, "page")).n < 1 THEN 1
    ELSE Denoted(FirstValue(q, "page")).n

SanitisedSize(q) ==
    IF ~HasKey(q, "size") THEN 10
    ELSE IF ~Denoted(FirstValue(q, "size")).int THEN 10
    ELSE IF Denoted(FirstValue(q, "size")).n < 1 \/ Denoted(FirstValue(q, "size")).n > 100
    THEN 10
    ELSE Denoted(FirstValue(q, "size")).n

\* C12: whichever of the four listing handlers calls its service, it passes
\* page 1 for a page that is absent, not an integer or below 1, size 10 for
\* a size that is absent, not an integer, below 1 or above 100, and any
\* other value as it is.
C12_SanitisedPagination ==
    listing.called =>
        /\ listing.op \in {"GetAllNews", "SearchNews", "GetNewsByCategory",
                           "GetUnlinkedNews"}
        /\ listing.page = SanitisedPage(listing.q)
        /\ listing.size = SanitisedSize(listing.q)
        /\ listing.page >= 1 /\ listing.size \in 1..100

\* the category listing was called for page=0&size=500 with page 1, size 10
C12_Witness ==
    /\ listing.called /\ listing.op = "GetNewsByCategory"
    /\ listing.q = <<<<"page", <<"0">>>>, <<"size", <<"5", "0", "0">>>>>>
    /\ listing.page = 1 /\ listing.size = 10

\* the errors SeedRSSources returns before it has looked at the table
RSSUnavailable ==
    {Failure("database connection not initialized", "none"),
     Failure("count query failed", "none")}

\* C13 as written: a SeedRSSources call made while the table holds at least
\* one source creates none and returns nil, and only a call whose count
\* query answered zero goes on to create the defaults.
C13_SkippedWhenAnySource ==
    \A p \in Procs :
        /\ (boot[p].op = "rss" /\ boot[p].sources > 0) =>
              /\ boot[p].created = 0
              /\ pc[p] \in {"rss", "idle"}
              /\ pc[p] = "idle" => result[p] = RSSSkipped
        /\ (boot[p].op = "rss" /\ (pc[p] = "rssLoop" \/ boot[p].created > 0)) =>
              boot[p].found = 0

\* C13 amended: such a call creates no source, and returns nil unless the
\* service has no database connection or its count query fails, when it
\* returns that error; only a call whose count query answered zero goes on
\* to create the defaults.
C13_SkippedUnlessUnavailable ==
    \A p \in Procs :
        /\ (boot[p].op = "rss" /\ boot[p].sources > 0) =>
              /\ boot[p].created = 0
              /\ pc[p] \in {"rss", "idle"}
              /\ pc[p] = "idle" =>
                   result[p] = RSSSkipped \/ result[p] \in RSSUnavailable
        /\ (boot[p].op = "rss" /\ (pc[p] = "rssLoop" \/ boot[p].created > 0)) =>
              boot[p].found = 0

\* a call made while only the second default source was on record returned
\* nil and left the table with that one source
C13_Witness ==
    \E p \in Procs :
        /\ boot[p].op = "rss" /\ boot[p].sources = 1 /\ pc[p] = "idle"
        /\ result[p] = RSSSkipped
        /\ rssSources = <<defaultSources[2]>>
        /\ calls = MaxCalls

\* the calls of batchInsertNews that run r made and that committed
CommittedBatches(r) ==
    {b \in 1..Len(hist[r].batches) : hist[r].batches[b].outcome = "nil"}

\* run r ended on a failed flush after an earlier flush of its own committed
FailedAfterCommit(r) ==
    /\ hist[r].kind = "import"
    /\ Len(hist[r].batches) >= 2
    /\ hist[r].batches[Len(hist[r].batches)].outcome \in {"insert failed", "commit failed"}
    /\ CommittedBatches(r) # {}

\* the candidates run r had resolved when its last committed flush began
LastCommittedAt(r) ==
    LET last == CHOOSE b \in CommittedBatches(r) : \A c \in CommittedBatches(r) : c <= b
    IN  hist[r].batches[last].at

\* the candidate is in the table: a stored row has its GUID and its link
Imported(c) ==
    \E i \in 1..Len(store) : store[i].guid = c.guid /\ store[i].link = c.link

\* what C14 says of a run that failed after a commit, given the results a
\* later call may end with: the earlier batches stay committed in full and
\* nothing of the failed one, a later call reads and writes nothing, and no
\* candidate behind the last committed batch is in the table
NotResumed(r, results) ==
    /\ \A b \in CommittedBatches(r) :
          Cardinality(RowsOfBatch(r, b)) = hist[r].batches[b].len
    /\ RowsOf(r) = UNION {RowsOfBatch(r, b) : b \in CommittedBatches(r)}
    /\ \A r2 \in Runs :
          r2 > r =>
            /\ ~hist[r2].sawEmpty
            /\ hist[r2].resolved = 0 /\ hist[r2].batches = <<>>
            /\ RowsOf(r2) = {}
            /\ \A p \in Procs :
                  (run[p] = r2 /\ pc[p] = "idle") => result[p] \in results
    /\ \A i \in (LastCommittedAt(r) + 1)..Len(file.items) : ~Imported(file.items[i])

====
